---- MODULE Spec2Model ----
(***************************************************************************)
(* Model of the remote catalog manager (catalog/src/remote/manager.rs):    *)
(* a three-level cache (catalog -> schema -> table) written through to a   *)
(* shared ordered key-value backend, a table-id allocator and the          *)
(* bootstrap sequence start().                                             *)
(***************************************************************************)
EXTENDS Integers, Sequences, FiniteSets, TLC

VARIABLES
    backend,                \* the shared KV backend: key string -> value string
    engine,                 \* the tables the table engine holds: full name -> table id
    catalogs,               \* RemoteCatalogManager.catalogs: name -> catalog provider
    next_table_id,          \* RemoteCatalogManager.next_table_id (AtomicU32)
    system_table_requests,  \* RemoteCatalogManager.system_table_requests
    held,                   \* a RemoteSchemaProvider a caller built with ::new and keeps
    issued,                 \* the value the latest next_table_id() returned, -1 before any
    ops,                    \* how many operations other than start() have run
    calls,                  \* the call each thread is in the middle of, if any
    last                    \* the last operation, its arguments and what it returned

vars == <<backend, engine, catalogs, next_table_id, system_table_requests, held,
          issued, ops, calls, last>>

----------------------------------------------------------------------------
(* Bounds *)

\* largest table id; stands for u32::MAX, the counter wraps past it
MaxTableId == 3
\* longest queue of pending system-table requests
MaxQueue == 1
\* how many operations other than start() a run makes
MaxOps == 3
\* the calls begun in a run where calls interleave step by step
MaxCalls == 2
\* longest queue of pending system-table requests where calls interleave
MaxPending == 2

----------------------------------------------------------------------------
(* Names *)

DEFAULT_CATALOG_NAME == "default_catalog"
DEFAULT_SCHEMA_NAME == "default_schema"

\* the node identity this manager was constructed with
node_id == "node_m"

\* identities of other nodes writing to the same backend; one sorts before
\* node_id in key order and one after
OtherNodes == {"node_a", "node_z"}
NodeIds == {node_id} \cup OtherNodes

CatalogNames == {DEFAULT_CATALOG_NAME, "cat_b"}
SchemaNames == {DEFAULT_SCHEMA_NAME, "sch_b"}
TableNames == {"tab_a", "tab_b"}

\* byte order of the names above
NameOrder == <<"cat_b", "default_catalog", "default_schema", "node_a", "node_m",
               "node_z", "sch_b", "tab_a", "tab_b">>
RankOf == [name \in {NameOrder[i] : i \in 1..Len(NameOrder)} |->
              CHOOSE i \in 1..Len(NameOrder) : NameOrder[i] = name]
Rank(name) == RankOf[name]

TableIds == 0..MaxTableId
TableIdMIN == 0

\* Option::None for handles and providers
None == [none |-> TRUE]

\* a table handle; table_info().ident.table_id is all the manager reads of it
TableRef(id) == [table_id |-> id]
\* the handles callers register: two distinct tables
UserTables == {TableRef(1), TableRef(2)}

\* the threads of the process, and a thread that is in no call
Threads == {"t1", "t2"}
Idle == [op |-> "idle"]

----------------------------------------------------------------------------
(* Key codec *)

CATALOG_KEY_PREFIX == "__c"
SCHEMA_KEY_PREFIX == "__s"
TABLE_KEY_PREFIX == "__t"

CatalogKey(c, n) == [catalog_name |-> c, node_id |-> n]
SchemaKey(c, s, n) == [catalog_name |-> c, schema_name |-> s, node_id |-> n]
TableKey(c, s, t, n) ==
    [catalog_name |-> c, schema_name |-> s, table_name |-> t, node_id |-> n]

\* The codec below is computed once over the names of the model and then looked
\* up: FormatX / ParseX hold the string operations, the functions cache them.

build_catalog_prefix == CATALOG_KEY_PREFIX \o "-"
SchemaPrefixes ==
    [c \in CatalogNames |-> SCHEMA_KEY_PREFIX \o "-" \o c \o "-"]
TablePrefixes ==
    [p \in CatalogNames \X SchemaNames |->
        TABLE_KEY_PREFIX \o "-" \o p[1] \o "-" \o p[2] \o "-"]
build_schema_prefix(c) == SchemaPrefixes[c]
build_table_prefix(c, s) == TablePrefixes[<<c, s>>]

AllCatalogKeys == {CatalogKey(c, n) : c \in CatalogNames, n \in NodeIds}
AllSchemaKeys ==
    {SchemaKey(c, s, n) : c \in CatalogNames, s \in SchemaNames, n \in NodeIds}
AllTableKeys ==
    {TableKey(c, s, t, n) :
        c \in CatalogNames, s \in SchemaNames, t \in TableNames, n \in NodeIds}

\* Display for the keys: prefix, then the names, the node identity last
CatalogKeyStrings ==
    [k \in AllCatalogKeys |-> build_catalog_prefix \o k.catalog_name \o "-" \o k.node_id]
SchemaKeyStrings ==
    [k \in AllSchemaKeys |->
        build_schema_prefix(k.catalog_name) \o k.schema_name \o "-" \o k.node_id]
TableKeyStrings ==
    [k \in AllTableKeys |->
        build_table_prefix(k.catalog_name, k.schema_name) \o k.table_name \o "-"
            \o k.node_id]
CatalogKey_to_string(k) == CatalogKeyStrings[k]
SchemaKey_to_string(k) == SchemaKeyStrings[k]
TableKey_to_string(k) == TableKeyStrings[k]

\* parse is the inverse of to_string on well-formed keys
CatalogKeyOf ==
    [str \in {CatalogKey_to_string(k) : k \in AllCatalogKeys} |->
        CHOOSE k \in AllCatalogKeys : CatalogKey_to_string(k) = str]
SchemaKeyOf ==
    [str \in {SchemaKey_to_string(k) : k \in AllSchemaKeys} |->
        CHOOSE k \in AllSchemaKeys : SchemaKey_to_string(k) = str]
TableKeyOf ==
    [str \in {TableKey_to_string(k) : k \in AllTableKeys} |->
        CHOOSE k \in AllTableKeys : TableKey_to_string(k) = str]
CatalogKey_parse(str) == CatalogKeyOf[str]
SchemaKey_parse(str) == SchemaKeyOf[str]
TableKey_parse(str) == TableKeyOf[str]

\* the marker payload of CatalogValue {} and SchemaValue {}
CatalogValue_to_bytes == "{}"
SchemaValue_to_bytes == "{}"

TableValue(id) == [id |-> id]
TableValueBytes == [id \in TableIds |-> "id:" \o ToString(id)]
TableValueOf ==
    [str \in {TableValueBytes[i] : i \in TableIds} |->
        CHOOSE v \in {TableValue(i) : i \in TableIds} : TableValueBytes[v.id] = str]
TableValue_as_bytes(v) == TableValueBytes[v.id]
TableValue_parse(str) == TableValueOf[str]

AllKeyStrings ==
    DOMAIN CatalogKeyOf \cup DOMAIN SchemaKeyOf \cup DOMAIN TableKeyOf
AllPrefixes ==
    {build_catalog_prefix, SCHEMA_KEY_PREFIX, TABLE_KEY_PREFIX}
    \cup {SchemaPrefixes[c] : c \in CatalogNames}
    \cup {TablePrefixes[p] : p \in CatalogNames \X SchemaNames}

----------------------------------------------------------------------------
(* KV backend *)

StartsWith(str, prefix) ==
    /\ Len(str) >= Len(prefix)
    /\ SubSeq(str, 1, Len(prefix)) = prefix

\* get: Option<Kv>, the empty set standing for None
KvGet(b, key) == IF key \in DOMAIN b THEN {b[key]} ELSE {}

KvSet(b, key, val) == [k \in DOMAIN b \cup {key} |-> IF k = key THEN val ELSE b[k]]

\* the keys of the model under each prefix
KeysUnder == [prefix \in AllPrefixes |-> {k \in AllKeyStrings : StartsWith(k, prefix)}]

\* range: the keys under a prefix, as the backend holds them when the scan opens
KvRange(b, prefix) == DOMAIN b \cap KeysUnder[prefix]

\* delete_range(key, end): an empty end covers exactly the one key
KvDeleteRange(b, key, end) ==
    IF end = ""
    THEN [k \in DOMAIN b \ {key} |-> b[k]]
    ELSE b

----------------------------------------------------------------------------
(* HashMap helpers *)

EmptyMap == [k \in {} |-> None]
MapGet(m, k) == IF k \in DOMAIN m THEN m[k] ELSE None
MapInsert(m, k, v) == [x \in DOMAIN m \cup {k} |-> IF x = k THEN v ELSE m[x]]
MapRemove(m, k) == [x \in DOMAIN m \ {k} |-> m[x]]

----------------------------------------------------------------------------
(* RemoteSchemaProvider: [catalog_name, schema_name, tables] *)

RemoteSchemaProvider_new(c, s) ==
    [catalog_name |-> c, schema_name |-> s, tables |-> EmptyMap]

table_key(sp, table_name) ==
    TableKey(sp.catalog_name, sp.schema_name, table_name, node_id)

\* table_names(): scan the table prefix, keep the keys of this node
Schema_table_names(b, sp) ==
    {TableKey_parse(k).table_name :
        k \in {x \in KvRange(b, build_table_prefix(sp.catalog_name, sp.schema_name)) :
                 TableKey_parse(x).node_id = node_id}}

\* table(name) served from the local map alone, the backend not consulted
Schema_table_LocalOnly(b, sp, name) == MapGet(sp.tables, name)

\* table(name)
Schema_table(b, sp, name) ==
    LET key == TableKey_to_string(table_key(sp, name))
    IN  IF KvGet(b, key) = {} THEN None ELSE MapGet(sp.tables, name)

\* register_table(name, table) with the handle stored under the key string
Schema_register_table_UnderKey(b, sp, name, table) ==
    LET table_value == TableValue(table.table_id)
        key == TableKey_to_string(table_key(sp, name))
        prev == IF KvGet(b, key) = {} THEN None ELSE MapGet(sp.tables, key)
    IN  [backend |-> KvSet(b, key, TableValue_as_bytes(table_value)),
         provider |-> [sp EXCEPT !.tables = MapInsert(sp.tables, key, table)],
         ret |-> prev]

\* register_table(name, table): the prior handle is looked up under the key string
Schema_register_table(b, sp, name, table) ==
    LET table_value == TableValue(table.table_id)
        key == TableKey_to_string(table_key(sp, name))
        prev == IF KvGet(b, key) = {} THEN None ELSE MapGet(sp.tables, key)
    IN  [backend |-> KvSet(b, key, TableValue_as_bytes(table_value)),
         provider |-> [sp EXCEPT !.tables = MapInsert(sp.tables, name, table)],
         ret |-> prev]

\* deregister_table(name) deleting every table row of the schema
Schema_deregister_table_WholeSchema(b, sp, name) ==
    LET key == TableKey_to_string(table_key(sp, name))
        gone == KvRange(b, build_table_prefix(sp.catalog_name, sp.schema_name))
    IN  [backend |-> [k \in DOMAIN b \ gone |-> b[k]],
         provider |-> [sp EXCEPT !.tables = MapRemove(sp.tables, key)],
         ret |-> MapGet(sp.tables, key)]

\* deregister_table(name): the local entry is removed under the key string
Schema_deregister_table(b, sp, name) ==
    LET key == TableKey_to_string(table_key(sp, name))
    IN  [backend |-> KvDeleteRange(b, key, ""),
         provider |-> [sp EXCEPT !.tables = MapRemove(sp.tables, key)],
         ret |-> MapGet(sp.tables, key)]

\* table_exist(name)
Schema_table_exist(b, sp, name) ==
    KvGet(b, TableKey_to_string(table_key(sp, name))) # {}

----------------------------------------------------------------------------
(* RemoteCatalogProvider: [catalog_name, schemas] *)

RemoteCatalogProvider_new(c) == [catalog_name |-> c, schemas |-> EmptyMap]

schema_key(cp, schema_name) == SchemaKey(cp.catalog_name, schema_name, node_id)

\* schema_names(): scan the schema prefix, keep the keys of this node
Catalog_schema_names(b, cp) ==
    {SchemaKey_parse(k).schema_name :
        k \in {x \in KvRange(b, build_schema_prefix(cp.catalog_name)) :
                 SchemaKey_parse(x).node_id = node_id}}

\* register_schema(name, schema)
Catalog_register_schema(b, cp, name, schema) ==
    LET key == SchemaKey_to_string(schema_key(cp, name))
        prev == IF KvGet(b, key) = {} THEN None ELSE MapGet(cp.schemas, name)
    IN  [backend |-> KvSet(b, key, SchemaValue_to_bytes),
         provider |-> [cp EXCEPT !.schemas = MapInsert(cp.schemas, name, schema)],
         ret |-> prev]

\* schema(name)
Catalog_schema(b, cp, name) ==
    LET key == SchemaKey_to_string(schema_key(cp, name))
    IN  IF KvGet(b, key) = {} THEN None ELSE MapGet(cp.schemas, name)

----------------------------------------------------------------------------
(* RemoteCatalogManager: the CatalogList part *)

build_catalog_key(catalog_name) == CatalogKey(catalog_name, node_id)

\* register_catalog(name, catalog)
Manager_register_catalog(b, cats, name, catalog) ==
    LET key == CatalogKey_to_string(build_catalog_key(name))
        prev == IF KvGet(b, key) = {} THEN None ELSE MapGet(cats, name)
    IN  [backend |-> KvSet(b, key, CatalogValue_to_bytes),
         catalogs |-> MapInsert(cats, name, catalog),
         ret |-> prev]

\* catalog_names(): scan the catalog prefix, keep the keys of this node
Manager_catalog_names(b) ==
    {CatalogKey_parse(k).catalog_name :
        k \in {x \in KvRange(b, build_catalog_prefix) :
                 CatalogKey_parse(x).node_id = node_id}}

\* catalog(name)
Manager_catalog(b, cats, name) ==
    LET key == CatalogKey_to_string(CatalogKey(name, node_id))
    IN  IF KvGet(b, key) = {} THEN None ELSE MapGet(cats, name)

\* Option<&str>: a name, or Absent
Absent == <<>>
Some(name) == <<name>>
unwrap_or(opt, default) == IF opt = Absent THEN default ELSE opt[1]

\* table() on resolved names reporting a missing catalog as no table
Manager_table_NotFoundAsNone(b, cats, catalog_name, schema_name, table_name) ==
    LET catalog == Manager_catalog(b, cats, catalog_name)
    IN  IF catalog = None THEN [ok |-> None]
        ELSE LET schema == Catalog_schema(b, catalog, schema_name)
             IN  IF schema = None THEN [err |-> "SchemaNotFound"]
                 ELSE [ok |-> Schema_table(b, schema, table_name)]

\* table(catalog, schema, table_name) once the names are resolved
Manager_table(b, cats, catalog_name, schema_name, table_name) ==
    LET catalog == Manager_catalog(b, cats, catalog_name)
    IN  IF catalog = None THEN [err |-> "CatalogNotFound"]
        ELSE LET schema == Catalog_schema(b, catalog, schema_name)
             IN  IF schema = None THEN [err |-> "SchemaNotFound"]
                 ELSE [ok |-> Schema_table(b, schema, table_name)]

\* table(catalog, schema, table_name): absent names resolve to the defaults
CatalogManager_table(b, cats, catalog, schema, table_name) ==
    Manager_table(b, cats, unwrap_or(catalog, DEFAULT_CATALOG_NAME),
                  unwrap_or(schema, DEFAULT_SCHEMA_NAME), table_name)

\* register_table(request) of the manager without the table_exist test
Manager_register_table_NoExistTest(b, cats, catalog_name, schema_name, table_name, table) ==
    LET catalog == Manager_catalog(b, cats, catalog_name)
        unchanged(e) == [backend |-> b, catalogs |-> cats, ret |-> [err |-> e]]
    IN  IF catalog = None THEN unchanged("CatalogNotFound")
        ELSE LET schema == Catalog_schema(b, catalog, schema_name)
             IN  IF schema = None THEN unchanged("SchemaNotFound")
                 ELSE LET r == Schema_register_table(b, schema, table_name, table)
                      IN  [backend |-> r.backend,
                           catalogs |->
                               [cats EXCEPT ![catalog_name].schemas[schema_name] =
                                                r.provider],
                           ret |-> [ok |-> 1]]

\* register_table(request) of the manager
Manager_register_table(b, cats, catalog_name, schema_name, table_name, table) ==
    LET catalog == Manager_catalog(b, cats, catalog_name)
        unchanged(e) == [backend |-> b, catalogs |-> cats, ret |-> [err |-> e]]
    IN  IF catalog = None THEN unchanged("CatalogNotFound")
        ELSE LET schema == Catalog_schema(b, catalog, schema_name)
             IN  IF schema = None THEN unchanged("SchemaNotFound")
                 ELSE IF Schema_table_exist(b, schema, table_name)
                      THEN unchanged("TableExists")
                      ELSE LET r == Schema_register_table(b, schema, table_name, table)
                           IN  [backend |-> r.backend,
                                catalogs |->
                                    [cats EXCEPT ![catalog_name].schemas[schema_name] =
                                                     r.provider],
                                ret |-> [ok |-> 1]]

\* register_table(request): absent names resolve to the defaults
CatalogManager_register_table(b, cats, request) ==
    Manager_register_table(b, cats, unwrap_or(request.catalog, DEFAULT_CATALOG_NAME),
                           unwrap_or(request.schema, DEFAULT_SCHEMA_NAME),
                           request.table_name, request.table)

----------------------------------------------------------------------------
(* Table engine: a map from the full table name to the id of the table *)

EngineName(c, s, t) == <<c, s, t>>

\* open_table: Some(handle) when the engine holds a table of that name
open_table(eng, request) ==
    LET n == EngineName(request.catalog_name, request.schema_name, request.table_name)
    IN  IF n \in DOMAIN eng THEN TableRef(eng[n]) ELSE None

\* create_table: with create_if_not_exists an existing table is returned as it is
create_table(eng, req) ==
    LET n == EngineName(req.catalog_name, req.schema_name, req.table_name)
    IN  IF n \in DOMAIN eng /\ req.create_if_not_exists
        THEN [engine |-> eng, table |-> TableRef(eng[n])]
        ELSE [engine |-> MapInsert(eng, n, req.id), table |-> TableRef(req.id)]

\* the engine calls that can fail
EngineCalls == {"open", "create"}

\* the table_info of an error: the qualified name and an id
TableInfo(tkey, id) ==
    [name |-> <<tkey.catalog_name, tkey.schema_name, tkey.table_name>>, id |-> id]

\* open_or_create_table(table_key, table_value), the engine calls in faults
\* failing: [engine, table, err, calls], calls being the engine calls made
open_or_create_table(eng, tkey, tvalue, faults) ==
    LET request == [catalog_name |-> tkey.catalog_name,
                    schema_name |-> tkey.schema_name,
                    table_name |-> tkey.table_name,
                    table_id |-> tvalue.id]
        req == [id |-> tvalue.id,
                catalog_name |-> tkey.catalog_name,
                schema_name |-> tkey.schema_name,
                table_name |-> tkey.table_name,
                create_if_not_exists |-> TRUE]
        opened == open_table(eng, request)
        open_call == [call |-> "open", request |-> request]
        create_call == [call |-> "create", request |-> req]
    IN  IF "open" \in faults
        THEN [engine |-> eng, table |-> None,
              err |-> [kind |-> "OpenTableFailed", table_info |-> TableInfo(tkey, 1)],
              calls |-> <<open_call>>]
        ELSE IF opened # None
        THEN [engine |-> eng, table |-> opened, err |-> None, calls |-> <<open_call>>]
        ELSE IF "create" \in faults
        THEN [engine |-> eng, table |-> None,
              err |-> [kind |-> "CreateTableFailed",
                       table_info |-> TableInfo(tkey, tvalue.id)],
              calls |-> <<open_call, create_call>>]
        ELSE LET created == create_table(eng, req)
             IN  [engine |-> created.engine, table |-> created.table, err |-> None,
                  calls |-> <<open_call, create_call>>]

----------------------------------------------------------------------------
(* Key order of a range scan *)

RECURSIVE LexLess(_, _)
LexLess(a, b) ==
    IF a = <<>> THEN FALSE
    ELSE IF Head(a) # Head(b) THEN Head(a) < Head(b)
    ELSE LexLess(Tail(a), Tail(b))

CatalogKeyRank(str) ==
    LET k == CatalogKey_parse(str) IN <<Rank(k.catalog_name), Rank(k.node_id)>>
SchemaKeyRank(str) ==
    LET k == SchemaKey_parse(str)
    IN  <<Rank(k.catalog_name), Rank(k.schema_name), Rank(k.node_id)>>
TableKeyRank(str) ==
    LET k == TableKey_parse(str)
    IN  <<Rank(k.catalog_name), Rank(k.schema_name), Rank(k.table_name),
          Rank(k.node_id)>>

KeyRank(str) ==
    IF str \in DOMAIN CatalogKeyOf THEN CatalogKeyRank(str)
    ELSE IF str \in DOMAIN SchemaKeyOf THEN SchemaKeyRank(str)
    ELSE TableKeyRank(str)

RECURSIVE SortKeys(_)
SortKeys(keys) ==
    IF keys = {} THEN <<>>
    ELSE LET k == CHOOSE x \in keys :
                    \A y \in keys \ {x} : LexLess(KeyRank(x), KeyRank(y))
         IN  <<k>> \o SortKeys(keys \ {k})

\* the keys under each prefix, in byte order
SortedKeysUnder == [prefix \in AllPrefixes |-> SortKeys(KeysUnder[prefix])]

\* the Kv pairs a scan of b under prefix yields, in key order
ScanOrder(b, prefix) ==
    LET sel == SelectSeq(SortedKeysUnder[prefix], LAMBDA k : k \in DOMAIN b)
    IN  [i \in 1..Len(sel) |-> [key |-> sel[i], val |-> b[sel[i]]]]

----------------------------------------------------------------------------
(* RemoteCatalogManager: bootstrap *)

new_catalog_provider(catalog_name) == RemoteCatalogProvider_new(catalog_name)
new_schema_provider(catalog_name, schema_name) ==
    RemoteSchemaProvider_new(catalog_name, schema_name)

Max(a, b) == IF a >= b THEN a ELSE b

\* initiate_default_catalog without the write of the catalog key
initiate_default_catalog_NoCatalogKey(b) ==
    LET default_catalog == new_catalog_provider(DEFAULT_CATALOG_NAME)
        default_schema == new_schema_provider(DEFAULT_CATALOG_NAME, DEFAULT_SCHEMA_NAME)
        r == Catalog_register_schema(b, default_catalog, DEFAULT_SCHEMA_NAME,
                                     default_schema)
        schema_key_str == SchemaKey_to_string(
            SchemaKey(DEFAULT_CATALOG_NAME, DEFAULT_SCHEMA_NAME, node_id))
    IN  KvSet(r.backend, schema_key_str, SchemaValue_to_bytes)

\* initiate_default_catalog: the provider it builds is dropped by its caller,
\* what stays is the two rows
initiate_default_catalog(b) ==
    LET default_catalog == new_catalog_provider(DEFAULT_CATALOG_NAME)
        default_schema == new_schema_provider(DEFAULT_CATALOG_NAME, DEFAULT_SCHEMA_NAME)
        r == Catalog_register_schema(b, default_catalog, DEFAULT_SCHEMA_NAME,
                                     default_schema)
        schema_key_str == SchemaKey_to_string(
            SchemaKey(DEFAULT_CATALOG_NAME, DEFAULT_SCHEMA_NAME, node_id))
        catalog_key_str == CatalogKey_to_string(
            CatalogKey(DEFAULT_CATALOG_NAME, node_id))
    IN  KvSet(KvSet(r.backend, schema_key_str, SchemaValue_to_bytes),
              catalog_key_str, CatalogValue_to_bytes)

\* the scan state: [backend, engine, res, max_table_id, rows, faults, failed];
\* failed is None, or what the open-or-create that ended the scan was given
\* and returned

\* the innermost loop of initiate_catalogs, over the tables of one schema
RECURSIVE scan_tables(_, _, _, _)
scan_tables(st, catalog_name, schema_name, kvs) ==
    IF kvs = <<>> \/ st.failed # None THEN st
    ELSE LET tkey == TableKey_parse(Head(kvs).key)
             tvalue == TableValue_parse(Head(kvs).val)
             oc == open_or_create_table(st.engine, tkey, tvalue, st.faults)
             schema == st.res[catalog_name].schemas[schema_name]
             r == Schema_register_table(st.backend, schema, tkey.table_name, oc.table)
         IN  IF oc.err # None
             THEN [st EXCEPT !.failed = [table_key |-> tkey, table_value |-> tvalue,
                                         err |-> oc.err, calls |-> oc.calls]]
             ELSE scan_tables(
                      [st EXCEPT !.backend = r.backend,
                                 !.engine = oc.engine,
                                 !.res = [st.res EXCEPT
                                             ![catalog_name].schemas[schema_name] =
                                                 r.provider],
                                 !.max_table_id = Max(st.max_table_id, tvalue.id),
                                 !.rows = st.rows + 1],
                      catalog_name, schema_name, Tail(kvs))

\* the middle loop of initiate_catalogs, over the schemas of one catalog
RECURSIVE scan_schemas(_, _, _)
scan_schemas(st, catalog_name, kvs) ==
    IF kvs = <<>> \/ st.failed # None THEN st
    ELSE LET schema_name == SchemaKey_parse(Head(kvs).key).schema_name
             catalog == st.res[catalog_name]
             found == Catalog_schema(st.backend, catalog, schema_name)
             r == IF found = None
                  THEN Catalog_register_schema(
                           st.backend, catalog, schema_name,
                           new_schema_provider(catalog_name, schema_name))
                  ELSE [backend |-> st.backend, provider |-> catalog]
             st1 == [st EXCEPT !.backend = r.backend,
                               !.res = [st.res EXCEPT ![catalog_name] = r.provider]]
             tables == ScanOrder(st1.backend,
                                 build_table_prefix(catalog_name, schema_name))
         IN  scan_schemas(scan_tables(st1, catalog_name, schema_name, tables),
                          catalog_name, Tail(kvs))

\* the outer loop of initiate_catalogs, over the catalog keys
RECURSIVE scan_catalogs(_, _)
scan_catalogs(st, kvs) ==
    IF kvs = <<>> \/ st.failed # None THEN st
    ELSE LET catalog_name == CatalogKey_parse(Head(kvs).key).catalog_name
             res1 == IF catalog_name \in DOMAIN st.res
                     THEN st.res
                     ELSE MapInsert(st.res, catalog_name,
                                    new_catalog_provider(catalog_name))
             st1 == [st EXCEPT !.res = res1]
             schemas == ScanOrder(st1.backend, build_schema_prefix(catalog_name))
         IN  scan_catalogs(scan_schemas(st1, catalog_name, schemas), Tail(kvs))

\* initiate_catalogs, the engine calls in faults failing
initiate_catalogs(b, eng, faults) ==
    LET b1 == initiate_default_catalog(b)
        cats == ScanOrder(b1, build_catalog_prefix)
    IN  scan_catalogs([backend |-> b1, engine |-> eng, res |-> EmptyMap,
                       max_table_id |-> TableIdMIN, rows |-> 0,
                       faults |-> faults, failed |-> None],
                      cats)

\* handle_system_table_request: every queued request, in order, is resolved by
\* open-or-create and registered into its schema; the queue is left empty
RECURSIVE handle_system_table_request(_, _)
handle_system_table_request(st, requests) ==
    IF requests = <<>> THEN st
    ELSE LET req == Head(requests)
             tkey == TableKey(req.catalog_name, req.schema_name, req.table_name, node_id)
             oc == open_or_create_table(st.engine, tkey, TableValue(req.id), {})
             schema == st.catalogs[req.catalog_name].schemas[req.schema_name]
             r == Schema_register_table(st.backend, schema, req.table_name, oc.table)
         IN  handle_system_table_request(
                 [backend |-> r.backend,
                  engine |-> oc.engine,
                  catalogs |-> [st.catalogs EXCEPT
                                   ![req.catalog_name].schemas[req.schema_name] =
                                       r.provider]],
                 Tail(requests))

----------------------------------------------------------------------------
(* The state after construction *)

\* rows this node left in the backend in an earlier life
OwnRows(id) ==
    LET ck == CatalogKey_to_string(CatalogKey(DEFAULT_CATALOG_NAME, node_id))
        sk == SchemaKey_to_string(
                  SchemaKey(DEFAULT_CATALOG_NAME, DEFAULT_SCHEMA_NAME, node_id))
        tk == TableKey_to_string(
                  TableKey(DEFAULT_CATALOG_NAME, DEFAULT_SCHEMA_NAME, "tab_a", node_id))
    IN  [k \in {ck, sk, tk} |->
            IF k = ck THEN CatalogValue_to_bytes
            ELSE IF k = sk THEN SchemaValue_to_bytes
            ELSE TableValue_as_bytes(TableValue(id))]

\* rows another node o registered: a catalog, a schema under it and a table
OtherRows(o, c, s, t, id) ==
    LET ck == CatalogKey_to_string(CatalogKey(c, o))
        sk == SchemaKey_to_string(SchemaKey(c, s, o))
        tk == TableKey_to_string(TableKey(c, s, t, o))
    IN  [k \in {ck, sk, tk} |->
            IF k = ck THEN CatalogValue_to_bytes
            ELSE IF k = sk THEN SchemaValue_to_bytes
            ELSE TableValue_as_bytes(TableValue(id))]

Merge(f, g) == [k \in DOMAIN f \cup DOMAIN g |-> IF k \in DOMAIN f THEN f[k] ELSE g[k]]

InitOwn == {EmptyMap} \cup {OwnRows(id) : id \in {1, MaxTableId}}
InitOther ==
    {EmptyMap}
    \cup {OtherRows("node_a", "cat_b", "sch_b", "tab_b", 2)}
    \cup {OtherRows(o, DEFAULT_CATALOG_NAME, DEFAULT_SCHEMA_NAME, "tab_a", 2) :
            o \in OtherNodes}

\* the engine's tables of an earlier life: those of this node's rows, or none
EngineOf(b) ==
    LET own == {k \in KvRange(b, TABLE_KEY_PREFIX) : TableKey_parse(k).node_id = node_id}
        names == {EngineName(TableKey_parse(k).catalog_name,
                             TableKey_parse(k).schema_name,
                             TableKey_parse(k).table_name) : k \in own}
    IN  [n \in names |->
            TableValue_parse(b[TableKey_to_string(TableKey(n[1], n[2], n[3], node_id))]).id]

InitWith(others) ==
    /\ \E own \in InitOwn, other \in others : backend = Merge(own, other)
    /\ engine \in {EmptyMap, EngineOf(backend)}
    /\ catalogs = EmptyMap
    /\ next_table_id = 0
    /\ system_table_requests = <<>>
    /\ held = RemoteSchemaProvider_new(DEFAULT_CATALOG_NAME, DEFAULT_SCHEMA_NAME)
    /\ issued = -1
    /\ ops = 0
    /\ calls = [t \in Threads |-> Idle]
    /\ last = [op |-> "new"]

Init == InitWith(InitOther)

\* a backend no other node has written to
InitAlone == InitWith({EmptyMap})

----------------------------------------------------------------------------
(* Operations *)

\* start(): the scan, the swap of the catalog map, the counter, then the drain.
\* max_table_id + 1 overflows at the largest id: a build with overflow checks
\* panics there, after the swap; one without wraps to 0
Start ==
    \E scan \in {initiate_catalogs(backend, engine, {})} :
        \/ \E drained \in {handle_system_table_request(
                               [backend |-> scan.backend, engine |-> scan.engine,
                                catalogs |-> scan.res],
                               system_table_requests)} :
               /\ backend' = drained.backend
               /\ engine' = drained.engine
               /\ catalogs' = drained.catalogs
               /\ next_table_id' = (scan.max_table_id + 1) % (MaxTableId + 1)
               /\ system_table_requests' = <<>>
               /\ last' = [op |-> "start", result |-> "ok",
                           max_table_id |-> scan.max_table_id, rows |-> scan.rows,
                           queued |-> Len(system_table_requests)]
               /\ UNCHANGED <<held, issued, ops, calls>>
        \/ /\ scan.max_table_id = MaxTableId
           /\ backend' = scan.backend
           /\ engine' = scan.engine
           /\ catalogs' = scan.res
           /\ last' = [op |-> "start", result |-> "panic",
                       max_table_id |-> scan.max_table_id, rows |-> scan.rows,
                       queued |-> Len(system_table_requests)]
           /\ UNCHANGED <<next_table_id, system_table_requests, held, issued, ops,
                          calls>>

\* next_table_id(): fetch_add(1) on the AtomicU32
NextTableId ==
    /\ next_table_id' = (next_table_id + 1) % (MaxTableId + 1)
    /\ issued' = next_table_id
    /\ last' = [op |-> "next_table_id", result |-> next_table_id, prev |-> issued,
                quiet |-> \/ last.op = "start" /\ last.result = "ok"
                          \/ last.op = "next_table_id" /\ last.quiet]
    /\ UNCHANGED <<backend, engine, catalogs, system_table_requests, held>>

\* register_table(request) of the manager
RegisterTable(request) ==
    LET r == CatalogManager_register_table(backend, catalogs, request)
    IN  /\ backend' = r.backend
        /\ catalogs' = r.catalogs
        /\ last' = [op |-> "register_table", request |-> request,
                    catalog |-> unwrap_or(request.catalog, DEFAULT_CATALOG_NAME),
                    schema |-> unwrap_or(request.schema, DEFAULT_SCHEMA_NAME),
                    table_name |-> request.table_name, table |-> request.table,
                    result |-> r.ret]
        /\ UNCHANGED <<engine, next_table_id, system_table_requests, held, issued>>

\* register_system_table(request): push under the queue lock
RegisterSystemTable(t, id) ==
    /\ Len(system_table_requests) < MaxQueue
    /\ system_table_requests' =
           Append(system_table_requests,
                  [catalog_name |-> DEFAULT_CATALOG_NAME,
                   schema_name |-> DEFAULT_SCHEMA_NAME,
                   table_name |-> t, id |-> id])
    /\ last' = [op |-> "register_system_table", table_name |-> t, id |-> id]
    /\ UNCHANGED <<backend, engine, catalogs, next_table_id, held, issued>>

\* register_catalog(name, catalog) with a provider the caller just built
RegisterCatalog(c) ==
    LET r == Manager_register_catalog(backend, catalogs, c, RemoteCatalogProvider_new(c))
    IN  /\ backend' = r.backend
        /\ catalogs' = r.catalogs
        /\ last' = [op |-> "register_catalog", catalog |-> c, result |-> r.ret]
        /\ UNCHANGED <<engine, next_table_id, system_table_requests, held, issued>>

\* catalog(c) then register_schema(s, schema) with a provider the caller just built
RegisterSchema(c, s) ==
    LET catalog == Manager_catalog(backend, catalogs, c)
        r == Catalog_register_schema(backend, catalog, s, RemoteSchemaProvider_new(c, s))
    IN  /\ catalog # None
        /\ backend' = r.backend
        /\ catalogs' = [catalogs EXCEPT ![c] = r.provider]
        /\ last' = [op |-> "register_schema", catalog |-> c, schema |-> s,
                    result |-> r.ret]
        /\ UNCHANGED <<engine, next_table_id, system_table_requests, held, issued>>

\* the schema providers a caller can reach: the one it keeps, and those the
\* manager serves through catalog(c) and schema(s)
Held == <<"held">>
Paths == {<<DEFAULT_CATALOG_NAME, DEFAULT_SCHEMA_NAME>>, <<"cat_b", "sch_b">>}
Targets == {Held} \cup Paths

\* the requests register_table is called with: a catalog and schema named, or
\* both left to the defaults
Requests ==
    {[catalog |-> co[1], schema |-> co[2], table_name |-> t, table |-> table] :
        co \in {<<Some(p[1]), Some(p[2])>> : p \in Paths} \cup {<<Absent, Absent>>},
        t \in TableNames, table \in UserTables}

Provider(b, cats, h, tgt) ==
    IF tgt = Held THEN h
    ELSE LET catalog == Manager_catalog(b, cats, tgt[1])
         IN  IF catalog = None THEN None ELSE Catalog_schema(b, catalog, tgt[2])

\* register_table(name, table) of a schema provider
SchemaRegisterTable(tgt, t, table) ==
    LET sp == Provider(backend, catalogs, held, tgt)
        r == Schema_register_table(backend, sp, t, table)
    IN  /\ sp # None
        /\ backend' = r.backend
        /\ IF tgt = Held
           THEN held' = r.provider /\ UNCHANGED catalogs
           ELSE /\ catalogs' = [catalogs EXCEPT ![tgt[1]].schemas[tgt[2]] = r.provider]
                /\ UNCHANGED held
        /\ last' = [op |-> "schema_register_table", target |-> tgt, table_name |-> t,
                    table |-> table, result |-> r.ret]
        /\ UNCHANGED <<engine, next_table_id, system_table_requests, issued>>

\* deregister_table(name) of a schema provider
SchemaDeregisterTable(tgt, t) ==
    LET sp == Provider(backend, catalogs, held, tgt)
        r == Schema_deregister_table(backend, sp, t)
    IN  /\ sp # None
        /\ backend' = r.backend
        /\ IF tgt = Held
           THEN held' = r.provider /\ UNCHANGED catalogs
           ELSE /\ catalogs' = [catalogs EXCEPT ![tgt[1]].schemas[tgt[2]] = r.provider]
                /\ UNCHANGED held
        /\ last' = [op |-> "deregister_table", target |-> tgt, table_name |-> t,
                    result |-> r.ret]
        /\ UNCHANGED <<engine, next_table_id, system_table_requests, issued>>

\* one more operation within the budget
Op == ops < MaxOps /\ ops' = ops + 1 /\ UNCHANGED calls

Next ==
    \/ Start
    \/ Op /\ NextTableId
    \/ Op /\ \E request \in Requests : RegisterTable(request)
    \/ Op /\ \E id \in {0, MaxTableId} : RegisterSystemTable("tab_b", id)
    \/ Op /\ \E c \in CatalogNames : RegisterCatalog(c)
    \/ Op /\ \E p \in Paths : RegisterSchema(p[1], p[2])
    \/ Op /\ \E tgt \in Targets, t \in TableNames, table \in UserTables :
                 SchemaRegisterTable(tgt, t, table)
    \/ Op /\ \E tgt \in Targets, t \in TableNames : SchemaDeregisterTable(tgt, t)

Spec == Init /\ [][Next]_vars

\* the same operations on a backend this node has to itself
SpecAlone == InitAlone /\ [][Next]_vars

----------------------------------------------------------------------------
(* Calls interleaving step by step: every backend call, every engine call and
   every lock region of an operation is one step of the thread that makes it *)

\* a call in progress: [op, pc, ...]; ref names the provider object the call
\* works on (Held, <<catalog>> or <<catalog, schema>>), obj is None while that
\* object is the one the manager serves and the object itself once the manager
\* serves another in its place
ObjAt(cats, ref) ==
    IF Len(ref) = 1 THEN cats[ref[1]] ELSE cats[ref[1]].schemas[ref[2]]

CallObj(call) ==
    IF call.obj # None THEN call.obj
    ELSE IF call.ref = Held THEN held
    ELSE ObjAt(catalogs, call.ref)

\* the calls of the other threads once the objects under the refs in hit are
\* replaced in the manager's map: each keeps the object it had resolved
Detach(cs, hit) ==
    [t \in Threads |->
        IF /\ "ref" \in DOMAIN cs[t]
           /\ cs[t].obj = None
           /\ cs[t].ref \in hit
        THEN [cs[t] EXCEPT !.obj = ObjAt(catalogs, cs[t].ref)]
        ELSE cs[t]]

\* the refs of the schema providers, and of all providers, in the map
SchemaRefs == {<<c, sn>> : c \in CatalogNames, sn \in SchemaNames}
AllRefs == {<<c>> : c \in CatalogNames} \cup SchemaRefs

BackendError == [err |-> "BackendError"]

\* what the return of thread t's call with res leaves on record: the call, its
\* result, the calls of the other threads in progress at that moment, and the
\* operation and provider of every call that has returned so far
Returned(t, res) ==
    [op |-> calls[t].op, thread |-> t, call |-> calls[t], result |-> res,
     during |-> {calls[u].op : u \in {x \in Threads : x # t /\ calls[x] # Idle}},
     done |-> (IF "done" \in DOMAIN last THEN last.done ELSE {})
              \cup {<<calls[t].op,
                      IF "ref" \in DOMAIN calls[t] THEN calls[t].ref ELSE <<>>>>}]

\* the call of thread t returns res
Return(t, res) ==
    /\ calls' = [calls EXCEPT ![t] = Idle]
    /\ last' = Returned(t, res)

\* thread t begins a call
Begin(t, call) ==
    /\ calls[t] = Idle
    /\ ops < MaxCalls
    /\ ops' = ops + 1
    /\ calls' = [calls EXCEPT ![t] = call]
    /\ UNCHANGED <<backend, engine, catalogs, next_table_id, system_table_requests,
                   held, issued, last>>

\* register_catalog(name, catalog) is called
BeginRegisterCatalog(t, name) ==
    Begin(t, [op |-> "register_catalog", pc |-> "get", name |-> name, prev |-> None])

\* register_schema(name, schema) is called on the provider catalog(c) returned
BeginRegisterSchema(t, c, name) ==
    /\ Manager_catalog(backend, catalogs, c) # None
    /\ Begin(t, [op |-> "register_schema", pc |-> "get", ref |-> <<c>>, obj |-> None,
                 name |-> name, prev |-> None])

\* register_table(name, table) is called on a schema provider
BeginSchemaRegisterTable(t, tgt, name, table) ==
    /\ Provider(backend, catalogs, held, tgt) # None
    /\ Begin(t, [op |-> "schema_register_table", pc |-> "get", ref |-> tgt,
                 obj |-> None, name |-> name, table |-> table, prev |-> None])

\* deregister_table(name) is called on a schema provider
BeginSchemaDeregisterTable(t, tgt, name) ==
    /\ Provider(backend, catalogs, held, tgt) # None
    /\ Begin(t, [op |-> "deregister_table", pc |-> "delete", ref |-> tgt,
                 obj |-> None, name |-> name])

\* register_table(request) of the manager is called
BeginRegisterTable(t, request) ==
    Begin(t, [op |-> "register_table", pc |-> "resolve",
              catalog |-> unwrap_or(request.catalog, DEFAULT_CATALOG_NAME),
              schema |-> unwrap_or(request.schema, DEFAULT_SCHEMA_NAME),
              name |-> request.table_name, table |-> request.table, prev |-> None])

\* start() is called
BeginStart(t) == Begin(t, [op |-> "start", pc |-> "scan"])

\* the key a registering or deregistering call reads and writes
CallKey(call) ==
    IF call.op = "register_catalog"
    THEN CatalogKey_to_string(build_catalog_key(call.name))
    ELSE IF call.op = "register_schema"
    THEN SchemaKey_to_string(schema_key(CallObj(call), call.name))
    ELSE TableKey_to_string(table_key(CallObj(call), call.name))

\* the value a registering call writes
CallValue(call) ==
    IF call.op = "register_catalog" THEN CatalogValue_to_bytes
    ELSE IF call.op = "register_schema" THEN SchemaValue_to_bytes
    ELSE TableValue_as_bytes(TableValue(call.table.table_id))

\* the entry of the local map a registering call reads as the prior handle
CallPrev(call) ==
    IF call.op = "register_catalog" THEN MapGet(catalogs, call.name)
    ELSE IF call.op = "register_schema" THEN MapGet(CallObj(call).schemas, call.name)
    ELSE MapGet(CallObj(call).tables, CallKey(call))

\* backend.get(key) of a register call going on to the local insert, the
\* backend set left out
StepGet_InsertFirst(t) ==
    /\ calls[t].op # "idle"
    /\ calls[t].pc = "get"
    /\ \/ /\ calls' = [calls EXCEPT ![t].pc = "insert",
                                    ![t].prev = IF KvGet(backend, CallKey(calls[t])) = {}
                                                THEN None
                                                ELSE CallPrev(calls[t])]
          /\ UNCHANGED last
       \/ Return(t, BackendError)
    /\ UNCHANGED <<backend, engine, catalogs, next_table_id, system_table_requests,
                   held, issued, ops>>

\* backend.get(key) of a register call, then the read of the local map
StepGet(t) ==
    /\ calls[t].op # "idle"
    /\ calls[t].pc = "get"
    /\ \/ /\ calls' = [calls EXCEPT ![t].pc = "set",
                                    ![t].prev = IF KvGet(backend, CallKey(calls[t])) = {}
                                                THEN None
                                                ELSE CallPrev(calls[t])]
          /\ UNCHANGED last
       \/ Return(t, BackendError)
    /\ UNCHANGED <<backend, engine, catalogs, next_table_id, system_table_requests,
                   held, issued, ops>>

\* backend.set(key, value) of a register call
StepSet(t) ==
    /\ calls[t].op # "idle"
    /\ calls[t].pc = "set"
    /\ \/ /\ backend' = KvSet(backend, CallKey(calls[t]), CallValue(calls[t]))
          /\ calls' = [calls EXCEPT ![t].pc = "insert"]
          /\ UNCHANGED last
       \/ /\ Return(t, BackendError)
          /\ UNCHANGED backend
    /\ UNCHANGED <<engine, catalogs, next_table_id, system_table_requests, held,
                   issued, ops>>

\* catalogs.insert(name, catalog) of register_catalog, under the write lock
StepInsertCatalog(t) ==
    /\ calls[t].op = "register_catalog"
    /\ calls[t].pc = "insert"
    /\ catalogs' = MapInsert(catalogs, calls[t].name,
                             RemoteCatalogProvider_new(calls[t].name))
    /\ calls' = [Detach(calls, {r \in AllRefs : r[1] = calls[t].name})
                    EXCEPT ![t] = Idle]
    /\ last' = Returned(t, calls[t].prev)
    /\ UNCHANGED <<backend, engine, next_table_id, system_table_requests, held,
                   issued, ops>>

\* schemas.insert(name, schema) of register_schema, under the write lock
StepInsertSchema(t) ==
    /\ calls[t].op = "register_schema"
    /\ calls[t].pc = "insert"
    /\ LET c == calls[t].ref[1]
           name == calls[t].name
       IN  IF calls[t].obj = None
           THEN /\ catalogs' =
                       [catalogs EXCEPT ![c].schemas =
                           MapInsert(@, name, RemoteSchemaProvider_new(c, name))]
                /\ calls' = [Detach(calls, {<<c, name>>}) EXCEPT ![t] = Idle]
           ELSE /\ UNCHANGED catalogs
                /\ calls' = [calls EXCEPT ![t] = Idle]
    /\ last' = Returned(t, calls[t].prev)
    /\ UNCHANGED <<backend, engine, next_table_id, system_table_requests, held,
                   issued, ops>>

\* tables.insert(name, table) of a schema's register_table, under the write
\* lock; the manager's register_table then returns Ok(1)
StepInsertTable(t) ==
    /\ calls[t].op \in {"schema_register_table", "register_table"}
    /\ calls[t].pc = "insert"
    /\ LET ref == calls[t].ref
           name == calls[t].name
       IN  IF calls[t].obj # None
           THEN UNCHANGED <<catalogs, held>>
           ELSE IF ref = Held
           THEN /\ held' = [held EXCEPT !.tables = MapInsert(@, name, calls[t].table)]
                /\ UNCHANGED catalogs
           ELSE /\ catalogs' =
                       [catalogs EXCEPT ![ref[1]].schemas[ref[2]].tables =
                           MapInsert(@, name, calls[t].table)]
                /\ UNCHANGED held
    /\ Return(t, IF calls[t].op = "register_table" THEN [ok |-> 1] ELSE calls[t].prev)
    /\ UNCHANGED <<backend, engine, next_table_id, system_table_requests, issued, ops>>

\* backend.delete_range(key, &[]) of deregister_table
StepDelete(t) ==
    /\ calls[t].op = "deregister_table"
    /\ calls[t].pc = "delete"
    /\ \/ /\ backend' = KvDeleteRange(backend, CallKey(calls[t]), "")
          /\ calls' = [calls EXCEPT ![t].pc = "remove"]
          /\ UNCHANGED last
       \/ /\ Return(t, BackendError)
          /\ UNCHANGED backend
    /\ UNCHANGED <<engine, catalogs, next_table_id, system_table_requests, held,
                   issued, ops>>

\* tables.remove(&key) of deregister_table, under the write lock
StepRemove(t) ==
    /\ calls[t].op = "deregister_table"
    /\ calls[t].pc = "remove"
    /\ LET ref == calls[t].ref
           key == CallKey(calls[t])
       IN  /\ IF calls[t].obj # None
              THEN UNCHANGED <<catalogs, held>>
              ELSE IF ref = Held
              THEN /\ held' = [held EXCEPT !.tables = MapRemove(@, key)]
                   /\ UNCHANGED catalogs
              ELSE /\ catalogs' =
                          [catalogs EXCEPT ![ref[1]].schemas[ref[2]].tables =
                              MapRemove(@, key)]
                   /\ UNCHANGED held
           /\ Return(t, MapGet(CallObj(calls[t]).tables, key))
    /\ UNCHANGED <<backend, engine, next_table_id, system_table_requests, issued, ops>>

\* catalog(catalog_name) then schema(schema_name) of the manager's register_table
StepResolve(t) ==
    /\ calls[t].op = "register_table"
    /\ calls[t].pc = "resolve"
    /\ LET call == calls[t]
           catalog == Manager_catalog(backend, catalogs, call.catalog)
       IN  \/ Return(t, BackendError)
           \/ IF catalog = None
              THEN Return(t, [err |-> "CatalogNotFound"])
              ELSE IF Catalog_schema(backend, catalog, call.schema) = None
              THEN Return(t, [err |-> "SchemaNotFound"])
              ELSE /\ calls' = [calls EXCEPT ![t] =
                                   [op |-> "register_table", pc |-> "exist",
                                    catalog |-> call.catalog, schema |-> call.schema,
                                    name |-> call.name, table |-> call.table,
                                    prev |-> None,
                                    ref |-> <<call.catalog, call.schema>>,
                                    obj |-> None]]
                   /\ UNCHANGED last
    /\ UNCHANGED <<backend, engine, catalogs, next_table_id, system_table_requests,
                   held, issued, ops>>

\* table_exist(table_name) of the manager's register_table
StepExist(t) ==
    /\ calls[t].op = "register_table"
    /\ calls[t].pc = "exist"
    /\ \/ Return(t, BackendError)
       \/ IF KvGet(backend, CallKey(calls[t])) # {}
          THEN Return(t, [err |-> "TableExists"])
          ELSE /\ calls' = [calls EXCEPT ![t].pc = "get"]
               /\ UNCHANGED last
    /\ UNCHANGED <<backend, engine, catalogs, next_table_id, system_table_requests,
                   held, issued, ops>>

\* initiate_catalogs() of start() with the map built so far installed when the
\* scan fails
StepScan_InstallOnFailure(t) ==
    /\ calls[t].op = "start"
    /\ calls[t].pc = "scan"
    /\ \/ /\ Return(t, BackendError)
          /\ UNCHANGED <<backend, engine, catalogs>>
       \/ \E faults \in SUBSET EngineCalls :
              \E scan \in {initiate_catalogs(backend, engine, faults)} :
                  /\ backend' = scan.backend
                  /\ engine' = scan.engine
                  /\ IF scan.failed # None
                     THEN /\ Return(t, [err |-> scan.failed.err.kind,
                                        table_info |-> scan.failed.err.table_info,
                                        failed |-> scan.failed])
                          /\ catalogs' = scan.res
                     ELSE /\ calls' = [calls EXCEPT ![t] =
                                          [op |-> "start", pc |-> "swap",
                                           res |-> scan.res,
                                           max_table_id |-> scan.max_table_id]]
                          /\ UNCHANGED <<last, catalogs>>
    /\ UNCHANGED <<next_table_id, system_table_requests, held, issued, ops>>

\* initiate_catalogs() of start(): the backend fails before anything is
\* written, or the scan runs with the engine calls in faults failing
StepScan(t) ==
    /\ calls[t].op = "start"
    /\ calls[t].pc = "scan"
    /\ \/ /\ Return(t, BackendError)
          /\ UNCHANGED <<backend, engine>>
       \/ \E faults \in SUBSET EngineCalls :
              \E scan \in {initiate_catalogs(backend, engine, faults)} :
                  /\ backend' = scan.backend
                  /\ engine' = scan.engine
                  /\ IF scan.failed # None
                     THEN Return(t, [err |-> scan.failed.err.kind,
                                     table_info |-> scan.failed.err.table_info,
                                     failed |-> scan.failed])
                     ELSE /\ calls' = [calls EXCEPT ![t] =
                                          [op |-> "start", pc |-> "swap",
                                           res |-> scan.res,
                                           max_table_id |-> scan.max_table_id]]
                          /\ UNCHANGED last
    /\ UNCHANGED <<catalogs, next_table_id, system_table_requests, held, issued, ops>>

\* *(self.catalogs.write().await) = catalogs
StepSwap(t) ==
    /\ calls[t].op = "start"
    /\ calls[t].pc = "swap"
    /\ catalogs' = calls[t].res
    /\ calls' = [Detach(calls, AllRefs) EXCEPT ![t].pc = "store"]
    /\ UNCHANGED <<backend, engine, next_table_id, system_table_requests, held,
                   issued, ops, last>>

\* next_table_id.store(max_table_id + 1): the sum overflows at the largest id
StepStore(t) ==
    /\ calls[t].op = "start"
    /\ calls[t].pc = "store"
    /\ \/ /\ next_table_id' = (calls[t].max_table_id + 1) % (MaxTableId + 1)
          /\ calls' = [calls EXCEPT ![t].pc = "drain"]
          /\ UNCHANGED last
       \/ /\ calls[t].max_table_id = MaxTableId
          /\ Return(t, [err |-> "panic"])
          /\ UNCHANGED next_table_id
    /\ UNCHANGED <<backend, engine, catalogs, system_table_requests, held, issued, ops>>

\* the queue lock, handle_system_table_request and the return of start()
StepDrain(t) ==
    /\ calls[t].op = "start"
    /\ calls[t].pc = "drain"
    /\ \/ /\ \/ system_table_requests = <<>>
             \/ Provider(backend, catalogs, held,
                         <<DEFAULT_CATALOG_NAME, DEFAULT_SCHEMA_NAME>>) # None
          /\ \E drained \in {handle_system_table_request(
                                 [backend |-> backend, engine |-> engine,
                                  catalogs |-> catalogs],
                                 system_table_requests)} :
                 /\ backend' = drained.backend
                 /\ engine' = drained.engine
                 /\ catalogs' = drained.catalogs
          /\ system_table_requests' = <<>>
          /\ Return(t, [ok |-> TRUE])
       \/ /\ system_table_requests # <<>>
          /\ Return(t, [err |-> "SystemTableFailed"])
          /\ UNCHANGED <<backend, engine, catalogs, system_table_requests>>
    /\ UNCHANGED <<next_table_id, held, issued, ops>>

\* a RegisterSystemTableRequest for a table of the default schema
SystemTableRequest(name, id) ==
    [catalog_name |-> DEFAULT_CATALOG_NAME, schema_name |-> DEFAULT_SCHEMA_NAME,
     table_name |-> name, id |-> id]

\* register_system_table(request) writing the table's row to the backend at once
StepRegisterSystemTable_WriteThrough(t, name, id) ==
    /\ calls[t] = Idle
    /\ ops < MaxCalls
    /\ ops' = ops + 1
    /\ Len(system_table_requests) < MaxPending
    /\ system_table_requests' =
           Append(system_table_requests, SystemTableRequest(name, id))
    /\ backend' = KvSet(backend,
                        TableKey_to_string(TableKey(DEFAULT_CATALOG_NAME,
                                                    DEFAULT_SCHEMA_NAME, name, node_id)),
                        TableValue_as_bytes(TableValue(id)))
    /\ last' = [op |-> "register_system_table", thread |-> t,
                request |-> SystemTableRequest(name, id),
                during |-> {calls[u].op : u \in {x \in Threads : calls[x] # Idle}},
                done |-> (IF "done" \in DOMAIN last THEN last.done ELSE {})
                         \cup {<<"register_system_table", <<>>>>}]
    /\ UNCHANGED <<engine, catalogs, next_table_id, held, issued, calls>>

\* register_system_table(request): the push under the queue lock, one step
StepRegisterSystemTable(t, name, id) ==
    /\ calls[t] = Idle
    /\ ops < MaxCalls
    /\ ops' = ops + 1
    /\ Len(system_table_requests) < MaxPending
    /\ system_table_requests' =
           Append(system_table_requests, SystemTableRequest(name, id))
    /\ last' = [op |-> "register_system_table", thread |-> t,
                request |-> SystemTableRequest(name, id),
                during |-> {calls[u].op : u \in {x \in Threads : calls[x] # Idle}},
                done |-> (IF "done" \in DOMAIN last THEN last.done ELSE {})
                         \cup {<<"register_system_table", <<>>>>}]
    /\ UNCHANGED <<backend, engine, catalogs, next_table_id, held, issued, calls>>

\* the queues a run of interleaved calls begins with: empty, or one request
\* pushed earlier and not yet drained
StepQueues == {<<>>, <<SystemTableRequest("tab_a", 2)>>}

\* the backends a run of interleaved calls begins on
StepBackends == {EmptyMap} \cup {OwnRows(id) : id \in {1, MaxTableId}}

\* the state a run of interleaved calls begins in: the manager as constructed,
\* or as a first start() left it
InitSteps ==
    /\ \E b \in StepBackends, started \in BOOLEAN :
           \E scan \in {initiate_catalogs(b, EmptyMap, {})} :
               /\ backend = IF started THEN scan.backend ELSE b
               /\ engine = IF started THEN scan.engine ELSE EmptyMap
               /\ catalogs = IF started THEN scan.res ELSE EmptyMap
               /\ next_table_id = IF started
                                  THEN (scan.max_table_id + 1) % (MaxTableId + 1)
                                  ELSE 0
    /\ system_table_requests \in StepQueues
    /\ held = RemoteSchemaProvider_new(DEFAULT_CATALOG_NAME, DEFAULT_SCHEMA_NAME)
    /\ issued = -1
    /\ ops = 0
    /\ calls = [t \in Threads |-> Idle]
    /\ last = [op |-> "new"]

\* the schema providers the interleaved calls work on
StepTargets == {Held, <<DEFAULT_CATALOG_NAME, DEFAULT_SCHEMA_NAME>>}

StepRequests ==
    {[catalog |-> Absent, schema |-> Absent, table_name |-> "tab_a", table |-> table] :
        table \in UserTables}

NextSteps ==
    \E t \in Threads :
        \/ \E c \in CatalogNames : BeginRegisterCatalog(t, c)
        \/ BeginRegisterSchema(t, DEFAULT_CATALOG_NAME, "sch_b")
        \/ \E tgt \in StepTargets, table \in UserTables :
               BeginSchemaRegisterTable(t, tgt, "tab_a", table)
        \/ \E tgt \in StepTargets : BeginSchemaDeregisterTable(t, tgt, "tab_a")
        \/ \E request \in StepRequests : BeginRegisterTable(t, request)
        \/ BeginStart(t)
        \/ StepRegisterSystemTable(t, "tab_b", MaxTableId)
        \/ StepGet(t)
        \/ StepSet(t)
        \/ StepInsertCatalog(t)
        \/ StepInsertSchema(t)
        \/ StepInsertTable(t)
        \/ StepDelete(t)
        \/ StepRemove(t)
        \/ StepResolve(t)
        \/ StepExist(t)
        \/ StepScan(t)
        \/ StepSwap(t)
        \/ StepStore(t)
        \/ StepDrain(t)

SpecSteps == InitSteps /\ [][NextSteps]_vars

----------------------------------------------------------------------------
(* Properties *)

StartedOk == last.op = "start" /\ last.result = "ok"

\* the catalog and schema a target's table keys are built from
PathOf(tgt) == IF tgt = Held THEN <<held.catalog_name, held.schema_name>> ELSE tgt

HeldSchema == Provider(backend, catalogs, held, Held)

\* C1 -- Write-then-read: right after register_table(name, handle) on a schema
\* provider, table_exist(name) is true and table(name) is that handle; and a
\* handle table(name) returns stays what table(name) returns over every step
\* that is not a register_table or deregister_table of that name in that schema
\* and that leaves the provider object in place (the caller's own provider
\* lives through every step, start() included).
C1_Registered ==
    last'.op = "schema_register_table" =>
        LET sp == Provider(backend', catalogs', held', last'.target)
        IN  /\ Schema_table_exist(backend', sp, last'.table_name)
            /\ Schema_table(backend', sp, last'.table_name) = last'.table

C1_SameName(tgt, t) ==
    /\ last'.op \in {"schema_register_table", "deregister_table", "register_table"}
    /\ last'.table_name = t
    /\ IF last'.op = "register_table"
       THEN <<last'.catalog, last'.schema>> = PathOf(tgt)
       ELSE PathOf(last'.target) = PathOf(tgt)

C1_SameObject(tgt) ==
    tgt = Held \/ last'.op \notin {"start", "register_catalog", "register_schema"}

C1_Kept ==
    \A tgt \in Targets, t \in TableNames :
        LET sp == Provider(backend, catalogs, held, tgt)
            sp2 == Provider(backend', catalogs', held', tgt)
        IN  (/\ sp # None
             /\ Schema_table(backend, sp, t) # None
             /\ C1_SameObject(tgt)
             /\ ~C1_SameName(tgt, t))
            => /\ sp2 # None
               /\ Schema_table_exist(backend', sp2, t)
               /\ Schema_table(backend', sp2, t) = Schema_table(backend, sp, t)

C1_WriteThenRead == [][C1_Registered /\ C1_Kept]_vars

\* a handle registered on the caller's provider is still served by it after a
\* start() that made the manager serve another handle under the same name
C1_Witness ==
    /\ StartedOk
    /\ Schema_table(backend, held, "tab_a") = TableRef(2)
    /\ Manager_table(backend, catalogs, DEFAULT_CATALOG_NAME, DEFAULT_SCHEMA_NAME,
                     "tab_a") = [ok |-> TableRef(1)]

\* C2 -- Duplicate rejection: the manager's register_table for a name whose
\* TableKey is in the backend under the resolved catalog and schema fails with
\* TableExists and changes neither the backend nor any cached handle.
C2_Duplicate ==
    (/\ last'.op = "register_table"
     /\ Manager_catalog(backend, catalogs, last'.catalog) # None
     /\ Catalog_schema(backend, catalogs[last'.catalog], last'.schema) # None
     /\ TableKey_to_string(TableKey(last'.catalog, last'.schema, last'.table_name,
                                    node_id)) \in DOMAIN backend)
    => /\ last'.result = [err |-> "TableExists"]
       /\ backend' = backend
       /\ catalogs' = catalogs
       /\ held' = held

C2_DuplicateRejection == [][C2_Duplicate]_vars

\* a rejected registration of a handle other than the one the schema serves
C2_Witness ==
    /\ last.op = "register_table"
    /\ last.result = [err |-> "TableExists"]
    /\ LET found == Manager_table(backend, catalogs, last.catalog, last.schema,
                                  last.table_name)
       IN  /\ "ok" \in DOMAIN found
           /\ found.ok # None
           /\ found.ok # last.table

\* C3 -- The cache is never the sole source of truth: catalog(name),
\* schema(name) and table(name) return a handle only when the key of this node
\* is in the backend; with the key absent they return not-found whatever the
\* local map holds, and with the key present and no local handle they return
\* not-found.
C3_Lookup(found, key, map, name) ==
    /\ found # None => key \in DOMAIN backend
    /\ key \notin DOMAIN backend => found = None
    /\ (key \in DOMAIN backend /\ name \notin DOMAIN map) => found = None
    /\ (key \in DOMAIN backend /\ name \in DOMAIN map) => found = map[name]

SchemaProviders ==
    {held} \cup UNION {{catalogs[c].schemas[s] : s \in DOMAIN catalogs[c].schemas} :
                          c \in DOMAIN catalogs}

C3_CacheNotSourceOfTruth ==
    /\ \A c \in CatalogNames :
           C3_Lookup(Manager_catalog(backend, catalogs, c),
                     CatalogKey_to_string(CatalogKey(c, node_id)), catalogs, c)
    /\ \A c \in DOMAIN catalogs, s \in SchemaNames :
           C3_Lookup(Catalog_schema(backend, catalogs[c], s),
                     SchemaKey_to_string(SchemaKey(catalogs[c].catalog_name, s, node_id)),
                     catalogs[c].schemas, s)
    /\ \A sp \in SchemaProviders, t \in TableNames :
           C3_Lookup(Schema_table(backend, sp, t),
                     TableKey_to_string(
                         TableKey(sp.catalog_name, sp.schema_name, t, node_id)),
                     sp.tables, t)

\* a table handle still in the local map though its key has left the backend,
\* a catalog in the map whose key was never written, and a schema key with no
\* local schema
C3_Witness ==
    /\ \E sp \in SchemaProviders, t \in TableNames :
           /\ t \in DOMAIN sp.tables
           /\ ~Schema_table_exist(backend, sp, t)
    /\ \E c \in DOMAIN catalogs :
           CatalogKey_to_string(CatalogKey(c, node_id)) \notin DOMAIN backend
    /\ \E c \in DOMAIN catalogs, s \in SchemaNames :
           /\ SchemaKey_to_string(SchemaKey(c, s, node_id)) \in DOMAIN backend
           /\ s \notin DOMAIN catalogs[c].schemas

\* the names the listing operations return, read off a backend b
CatalogNamesOf(b) == Manager_catalog_names(b)
SchemaNamesOf(b, c) == Catalog_schema_names(b, RemoteCatalogProvider_new(c))
TableNamesOf(b, c, s) == Schema_table_names(b, RemoteSchemaProvider_new(c, s))

\* the table names queued for the schema <<c, s>>
QueuedNames(q, c, s) ==
    {q[i].table_name : i \in {j \in 1..Len(q) :
                                q[j].catalog_name = c /\ q[j].schema_name = s}}

\* C4 -- Node partitioning: start() registers only what carries this node's
\* identity: the names catalog_names(), schema_names() and table_names() list
\* after it are names this node had registered before it, the default catalog
\* and schema, and the queued system tables.
C4_Start ==
    last'.op = "start" =>
        /\ CatalogNamesOf(backend') \subseteq
               CatalogNamesOf(backend) \cup {DEFAULT_CATALOG_NAME}
        /\ \A c \in CatalogNames :
               SchemaNamesOf(backend', c) \subseteq
                   SchemaNamesOf(backend, c)
                   \cup (IF c = DEFAULT_CATALOG_NAME THEN {DEFAULT_SCHEMA_NAME} ELSE {})
        /\ \A c \in CatalogNames, sn \in SchemaNames :
               TableNamesOf(backend', c, sn) \subseteq
                   TableNamesOf(backend, c, sn)
                   \cup QueuedNames(system_table_requests, c, sn)

C4_NodePartitioning == [][C4_Start]_vars

\* this node's table rows in a backend b
OwnTableKeys(b) ==
    {k \in KvRange(b, TABLE_KEY_PREFIX) : TableKey_parse(k).node_id = node_id}

\* C5 -- Bootstrap recovery: after a successful start() every table row of this
\* node that was in the backend when it began exists, and the manager's table()
\* returns its handle: the table the engine held under that name, or one
\* created with the row's id when the engine held none.
C5_Recovered(k) ==
    LET tkey == TableKey_parse(k)
        n == EngineName(tkey.catalog_name, tkey.schema_name, tkey.table_name)
        found == Manager_table(backend', catalogs', tkey.catalog_name,
                               tkey.schema_name, tkey.table_name)
    IN  /\ k \in DOMAIN backend'
        /\ "ok" \in DOMAIN found
        /\ found.ok # None
        /\ found.ok = IF n \in DOMAIN engine
                      THEN TableRef(engine[n])
                      ELSE TableRef(TableValue_parse(backend[k]).id)

C5_Start ==
    (last'.op = "start" /\ last'.result = "ok") =>
        \A k \in OwnTableKeys(backend) : C5_Recovered(k)

C5_BootstrapRecovery == [][C5_Start]_vars

\* C6 -- Allocator seeding: after a successful start() the counter is above
\* every table id the scan saw: max_observed_id + 1 when a row was scanned, the
\* minimum table id when none was.
C6_AllocatorSeeding ==
    StartedOk =>
        /\ last.rows > 0 =>
               /\ next_table_id = last.max_table_id + 1
               /\ next_table_id > last.max_table_id
        /\ last.rows = 0 => next_table_id = TableIdMIN

\* C7 -- Allocator monotonicity: every next_table_id() returns more than the
\* call before it returned.
C7_AllocatorMonotonic ==
    (last.op = "next_table_id" /\ last.prev # -1) => last.result > last.prev

\* nothing but next_table_id() has run since the last successful start()
Quiet == StartedOk \/ (last.op = "next_table_id" /\ last.quiet)

\* C8 -- Idempotent bootstrap: a start() that follows a successful start(), with
\* nothing but next_table_id() in between, leaves the catalog, schema and table
\* name sets as they were and does not lower the table-id counter.
C8_SecondStart ==
    (Quiet /\ last'.op = "start" /\ last'.result = "ok") =>
        /\ CatalogNamesOf(backend') = CatalogNamesOf(backend)
        /\ \A c \in CatalogNames : SchemaNamesOf(backend', c) = SchemaNamesOf(backend, c)
        /\ \A c \in CatalogNames, sn \in SchemaNames :
               TableNamesOf(backend', c, sn) = TableNamesOf(backend, c, sn)
        /\ next_table_id' >= next_table_id

C8_IdempotentBootstrap == [][C8_SecondStart]_vars

\* C9 -- Deregistration: right after deregister_table(name) the schema reports
\* the name absent and serves no handle for it; and a successful start() that
\* follows the deregistration, with no request queued for the name, does not
\* list the name and serves no handle for it.
C9_Deregistered ==
    last'.op = "deregister_table" =>
        LET sp == Provider(backend', catalogs', held', last'.target)
        IN  /\ ~Schema_table_exist(backend', sp, last'.table_name)
            /\ Schema_table(backend', sp, last'.table_name) = None

C9_NotRediscovered ==
    (last.op = "deregister_table" /\ last'.op = "start" /\ last'.result = "ok") =>
        LET p == PathOf(last.target)
            t == last.table_name
        IN  t \notin QueuedNames(system_table_requests, p[1], p[2])
            => /\ t \notin TableNamesOf(backend', p[1], p[2])
               /\ Manager_table(backend', catalogs', p[1], p[2], t) \in
                      {[ok |-> None], [err |-> "CatalogNotFound"],
                       [err |-> "SchemaNotFound"]}

C9_Deregistration == [][C9_Deregistered /\ C9_NotRediscovered]_vars

\* C10 -- Default namespace: after a successful start() the default catalog and
\* schema keys of this node are in the backend and catalog(default) and its
\* schema(default) return handles; from an empty backend with nothing queued
\* the listings are exactly the default catalog, the default schema under it
\* and no table.
C10_Start ==
    (last'.op = "start" /\ last'.result = "ok") =>
        LET catalog == Manager_catalog(backend', catalogs', DEFAULT_CATALOG_NAME)
        IN  /\ CatalogKey_to_string(CatalogKey(DEFAULT_CATALOG_NAME, node_id))
                   \in DOMAIN backend'
            /\ SchemaKey_to_string(
                   SchemaKey(DEFAULT_CATALOG_NAME, DEFAULT_SCHEMA_NAME, node_id))
                   \in DOMAIN backend'
            /\ catalog # None
            /\ Catalog_schema(backend', catalog, DEFAULT_SCHEMA_NAME) # None
            /\ (DOMAIN backend = {} /\ system_table_requests = <<>>) =>
                   /\ CatalogNamesOf(backend') = {DEFAULT_CATALOG_NAME}
                   /\ SchemaNamesOf(backend', DEFAULT_CATALOG_NAME) =
                          {DEFAULT_SCHEMA_NAME}
                   /\ TableNamesOf(backend', DEFAULT_CATALOG_NAME,
                                   DEFAULT_SCHEMA_NAME) = {}

C10_DefaultNamespace == [][C10_Start]_vars

\* the first start() of a node on an empty backend
C10_Witness ==
    /\ StartedOk
    /\ last.rows = 0
    /\ DOMAIN backend =
           {CatalogKey_to_string(CatalogKey(DEFAULT_CATALOG_NAME, node_id)),
            SchemaKey_to_string(
                SchemaKey(DEFAULT_CATALOG_NAME, DEFAULT_SCHEMA_NAME, node_id))}
    /\ Manager_table(backend, catalogs, DEFAULT_CATALOG_NAME, DEFAULT_SCHEMA_NAME,
                     "tab_a") = [ok |-> None]

\* C11 -- Table-id uniqueness: no two table rows of this node in the backend
\* carry the same table id.
C11_TableIdUnique ==
    \A k1, k2 \in OwnTableKeys(backend) :
        k1 # k2 => TableValue_parse(backend[k1]).id # TableValue_parse(backend[k2]).id

\* the ways a caller names a catalog or a schema
OptCatalogs == {Absent} \cup {Some(c) : c \in CatalogNames}
OptSchemas == {Absent} \cup {Some(sn) : sn \in SchemaNames}

\* the error the resolved names of a call meet first, "" when both are found
NotFoundOf(catalog, schema) ==
    LET found == Manager_catalog(backend, catalogs,
                                 unwrap_or(catalog, DEFAULT_CATALOG_NAME))
    IN  IF found = None THEN "CatalogNotFound"
        ELSE IF Catalog_schema(backend, found,
                               unwrap_or(schema, DEFAULT_SCHEMA_NAME)) = None
             THEN "SchemaNotFound"
             ELSE ""

\* C12 -- Not-found propagation: the manager's table() and register_table()
\* fail with CatalogNotFound when the resolved catalog is not found and with
\* SchemaNotFound when the catalog is found and the resolved schema is not, and
\* register_table then changes neither the backend nor any local map.
C12_Table ==
    \A catalog \in OptCatalogs, schema \in OptSchemas, t \in TableNames :
        NotFoundOf(catalog, schema) # "" =>
            CatalogManager_table(backend, catalogs, catalog, schema, t) =
                [err |-> NotFoundOf(catalog, schema)]

C12_RegisterTable ==
    (/\ last'.op = "register_table"
     /\ NotFoundOf(last'.request.catalog, last'.request.schema) # "")
    => /\ last'.result =
              [err |-> NotFoundOf(last'.request.catalog, last'.request.schema)]
       /\ backend' = backend
       /\ catalogs' = catalogs
       /\ held' = held

C12_NotFoundPropagation == [][C12_Table /\ C12_RegisterTable]_vars

\* a register_table with both names left to the defaults that failed on the
\* default catalog while cat_b is found and its schema sch_b is not
C12_Witness ==
    /\ last.op = "register_table"
    /\ last.request.catalog = Absent
    /\ last.result = [err |-> "CatalogNotFound"]
    /\ CatalogManager_table(backend, catalogs, Some("cat_b"), Some("sch_b"), "tab_a") =
           [err |-> "SchemaNotFound"]

\* C13 -- deregister_table(name) on a schema whose local map holds a handle for
\* name removes the entry and returns the removed handle; it returns nothing
\* only when the local map held none.
C13_Deregister ==
    last'.op = "deregister_table" =>
        LET sp == Provider(backend, catalogs, held, last'.target)
            sp2 == Provider(backend', catalogs', held', last'.target)
            name == last'.table_name
        IN  /\ name \in DOMAIN sp.tables =>
                   /\ name \notin DOMAIN sp2.tables
                   /\ last'.result = sp.tables[name]
            /\ name \notin DOMAIN sp.tables => last'.result = None

C13_DeregisterReturnsHandle == [][C13_Deregister]_vars

\* C14 -- register_table(name, handle) of a schema for a name that has a backend
\* row and a handle in the local map returns that prior handle, and returns
\* nothing when the local map held none; either way the new handle is the one
\* in the local map afterwards.
C14_Register ==
    last'.op = "schema_register_table" =>
        LET sp == Provider(backend, catalogs, held, last'.target)
            sp2 == Provider(backend', catalogs', held', last'.target)
            name == last'.table_name
        IN  /\ (Schema_table_exist(backend, sp, name) /\ name \in DOMAIN sp.tables) =>
                   last'.result = sp.tables[name]
            /\ name \notin DOMAIN sp.tables => last'.result = None
            /\ MapGet(sp2.tables, name) = last'.table

C14_RegisterReturnsPrior == [][C14_Register]_vars

\* the calls that write a key and then the local map
RegisterOps == {"register_catalog", "register_schema", "schema_register_table",
                "register_table"}

\* thread t takes the step in which its call returns
Returns(t) == calls[t] # Idle /\ calls'[t] = Idle

\* thread t takes a step of the call it is in
Steps(t) == calls[t] # Idle /\ (calls'[t] = Idle \/ calls'[t].pc # calls[t].pc)

\* C15 -- Write-through ordering: a registering call comes to its local insert
\* only by its backend set, which has then written the key; the local maps
\* change in a step of a registering call only at that insert; and the step
\* in which a registering or deregistering call returns a backend error
\* changes no local map.
C15_Step(t) ==
    /\ (/\ calls[t].op \in RegisterOps
        /\ calls'[t] # Idle
        /\ calls'[t].pc = "insert"
        /\ calls[t].pc # "insert")
       => /\ calls[t].pc = "set"
          /\ KvGet(backend', CallKey(calls[t])) = {CallValue(calls[t])}
    /\ (/\ calls[t].op \in RegisterOps
        /\ Steps(t)
        /\ <<catalogs, held>> # <<catalogs', held'>>)
       => /\ calls[t].pc = "insert"
          /\ backend' = backend
    /\ (/\ calls[t].op \in RegisterOps \cup {"deregister_table"}
        /\ Returns(t)
        /\ last'.result = BackendError)
       => /\ <<catalogs, held>> = <<catalogs', held'>>
          /\ calls[t].pc # "insert"

C15_WriteThroughOrdering == [][\A t \in Threads : C15_Step(t)]_vars

\* a register_catalog whose backend set failed: the call returned the error
\* and the catalog is neither in the backend nor in the map
C15_Witness ==
    /\ last.op = "register_catalog"
    /\ last.call.pc = "set"
    /\ last.result = BackendError
    /\ last.call.name \notin DOMAIN catalogs
    /\ Manager_catalog_names(backend) = {}

\* C16 -- Open-or-create: the engine's create is called only after its open
\* reported not-found, with the TableValue's id and create_if_not_exists set; a
\* failing open yields OpenTableFailed and a failing create CreateTableFailed,
\* either carrying the table's catalog, schema and table name and the
\* TableValue's id.
C16_OpenOrCreate ==
    (last.op = "start" /\ "failed" \in DOMAIN last.result) =>
        LET f == last.result.failed
            tkey == f.table_key
        IN  /\ f.calls[1].call = "open"
            /\ Len(f.calls) = 2 =>
                   /\ f.calls[2].call = "create"
                   /\ f.calls[2].request.id = f.table_value.id
                   /\ f.calls[2].request.create_if_not_exists
                   /\ open_table(engine, f.calls[1].request) = None
            /\ last.result.err = IF Len(f.calls) = 1 THEN "OpenTableFailed"
                                                      ELSE "CreateTableFailed"
            /\ last.result.table_info =
                   [name |-> <<tkey.catalog_name, tkey.schema_name, tkey.table_name>>,
                    id |-> f.table_value.id]

\* the request at position i of the queue q has its row in backend b and its
\* handle in the map cats
Materialized(b, cats, q, i) ==
    LET res == Manager_table(b, cats, q[i].catalog_name, q[i].schema_name,
                             q[i].table_name)
    IN  "ok" \in DOMAIN res /\ res.ok # None

\* thread t's start() is at pc
StartAt(cs, t, pc) == cs[t].op = "start" /\ cs[t].pc = pc

\* C17 -- System-table deferral: register_system_table(request) only appends
\* the request at the end of the pending queue and changes neither the backend,
\* the catalog map, the engine nor the table-id counter; the queue loses
\* requests only in the drain step of a start(), which is reached only after
\* the catalog map was replaced and then the counter was set, takes the whole
\* queue in one step under the lock and leaves every request it took
\* materialized (row in the backend, handle in the map); a drain that fails
\* leaves the queue as it was.
C17_Enqueue ==
    (ops' # ops /\ calls' = calls) =>
        /\ last'.op = "register_system_table"
        /\ system_table_requests' = Append(system_table_requests, last'.request)
        /\ UNCHANGED <<backend, engine, catalogs, next_table_id>>

C17_Drain ==
    (system_table_requests' # system_table_requests /\ ~(ops' # ops /\ calls' = calls)) =>
        \E t \in Threads :
            /\ StartAt(calls, t, "drain")
            /\ calls'[t] = Idle
            /\ last'.result = [ok |-> TRUE]
            /\ system_table_requests' = <<>>
            /\ \A i \in 1..Len(system_table_requests) :
                   Materialized(backend', catalogs', system_table_requests, i)

C17_Order ==
    \A t \in Threads :
        /\ (StartAt(calls', t, "drain") /\ ~StartAt(calls, t, "drain")) =>
               /\ StartAt(calls, t, "store")
               /\ next_table_id' = (calls[t].max_table_id + 1) % (MaxTableId + 1)
               /\ UNCHANGED <<system_table_requests, backend, engine>>
        /\ (StartAt(calls', t, "store") /\ ~StartAt(calls, t, "store")) =>
               /\ StartAt(calls, t, "swap")
               /\ catalogs' = calls[t].res
               /\ UNCHANGED <<system_table_requests, backend, engine>>
        /\ (StartAt(calls, t, "scan") /\ calls'[t] # calls[t]) =>
               UNCHANGED system_table_requests

C17_SystemTableDeferral == [][C17_Enqueue /\ C17_Drain /\ C17_Order]_vars

\* a start() has returned success after a register_system_table call of the
\* same run, its drain having emptied the queue and materialized the tables
C17_Witness ==
    /\ last.op = "start"
    /\ last.result = [ok |-> TRUE]
    /\ <<"register_system_table", <<>>>> \in last.done
    /\ system_table_requests = <<>>
    /\ \A name \in TableNames :
           Manager_table(backend, catalogs, DEFAULT_CATALOG_NAME,
                         DEFAULT_SCHEMA_NAME, name).ok # None

\* C18 -- A failed bootstrap scan leaves the manager as it was: the step of
\* start() that runs the scan, failing or not, changes neither the catalog map
\* nor the table-id counter; start() replaces the map only in the step after a
\* scan that succeeded, by the map that scan built, and sets the counter only
\* in the step after that; a failure of the drain comes only after both steps.
C18_Step(t) ==
    (calls[t].op = "start" /\ Steps(t)) =>
        /\ calls[t].pc = "scan" => UNCHANGED <<catalogs, next_table_id>>
        /\ (Returns(t) /\ "err" \in DOMAIN last'.result) =>
               \/ calls[t].pc = "scan" /\ UNCHANGED <<catalogs, next_table_id>>
               \/ calls[t].pc = "store" /\ last'.result.err = "panic"
               \/ calls[t].pc = "drain" /\ last'.result.err = "SystemTableFailed"
        /\ StartAt(calls', t, "swap") =>
               /\ calls[t].pc = "scan"
               /\ \E faults \in SUBSET EngineCalls :
                      LET scan == initiate_catalogs(backend, engine, faults)
                      IN  scan.failed = None /\ calls'[t].res = scan.res
                                            /\ calls'[t].max_table_id = scan.max_table_id
        /\ StartAt(calls', t, "store") =>
               calls[t].pc = "swap" /\ catalogs' = calls[t].res
                                    /\ UNCHANGED next_table_id
        /\ StartAt(calls', t, "drain") =>
               /\ calls[t].pc = "store"
               /\ next_table_id' = (calls[t].max_table_id + 1) % (MaxTableId + 1)
               /\ UNCHANGED catalogs

C18_FailedScanKeepsState == [][\A t \in Threads : C18_Step(t)]_vars

\* a start() on a manager that was started before has failed in the scan on an
\* engine error, and the manager still serves the map of the earlier start
C18_Witness ==
    /\ last.op = "start"
    /\ "failed" \in DOMAIN last.result
    /\ last.call.pc = "scan"
    /\ last.thread = "t1"
    /\ last.result.err = "OpenTableFailed"
    /\ last.done = {<<"start", <<>>>>}
    /\ system_table_requests = <<>>
    /\ catalogs # EmptyMap
    /\ next_table_id = 2

\* every call that has returned so far was a register_table on the schema
\* provider ref, and no call is in progress
OnlyRegisterTableOn(ref) ==
    /\ \A t \in Threads : calls[t] = Idle
    /\ "done" \in DOMAIN last
    /\ \A d \in last.done :
           d[1] \in {"schema_register_table", "register_table"} /\ d[2] = ref

\* C19 -- Cache/backend agreement under concurrency: once the register_table
\* calls made on one schema provider have all returned, no other call having
\* been made, for every table name for which table(name) returns a handle the
\* id in the backend row equals the id of that handle.
C19_CacheBackendAgreement ==
    \A ref \in StepTargets :
        OnlyRegisterTableOn(ref) =>
            LET sp == Provider(backend, catalogs, held, ref)
            IN  \A name \in TableNames :
                    LET key == TableKey_to_string(table_key(sp, name))
                        handle == Schema_table(backend, sp, name)
                    IN  handle # None =>
                            \A row \in KvGet(backend, key) :
                                TableValue_parse(row).id = handle.table_id

\* the call on record in rec is a registration that returned success while a
\* start() was in progress
RegisteredDuringStart(rec) ==
    /\ rec.op \in {"register_catalog", "register_table"}
    /\ "during" \in DOMAIN rec
    /\ "start" \in rec.during
    /\ "err" \notin DOMAIN rec.result

\* what the registration on record in rec registered is found in backend b and
\* map cats: catalog(name), or the manager's table lookup, returns a handle
FoundAfter(b, cats, rec) ==
    IF rec.op = "register_catalog"
    THEN Manager_catalog(b, cats, rec.call.name) # None
    ELSE LET res == Manager_table(b, cats, rec.call.catalog, rec.call.schema,
                                  rec.call.name)
         IN  "ok" \in DOMAIN res /\ res.ok # None

\* C20 -- A registration that succeeded is not lost by a concurrent bootstrap:
\* when register_catalog or the manager's register_table has returned success
\* while a start() was in progress, then at the successful return of that
\* start() catalog(name), respectively the manager's table lookup for that
\* name, returns a handle.
C20_Step(t) ==
    (/\ calls[t].op = "start"
     /\ Returns(t)
     /\ last'.result = [ok |-> TRUE]
     /\ RegisteredDuringStart(last)) =>
        FoundAfter(backend', catalogs', last)

C20_RegistrationSurvivesStart == [][\A t \in Threads : C20_Step(t)]_vars

\* the key strings of the catalog and schema rows
CatalogAndSchemaKeys == DOMAIN CatalogKeyOf \cup DOMAIN SchemaKeyOf

\* the row deregister_table(name) on target tgt deletes
DeregisteredKey(tgt, name) ==
    TableKey_to_string(TableKey(PathOf(tgt)[1], PathOf(tgt)[2], name, node_id))

\* C21 -- Frame of deletion: a step that removes a backend row is a
\* deregister_table(name) and the row removed is exactly the TableKey row of
\* name in that schema; deregister_table(name) leaves that row absent, every
\* other row as it was, and for every other table name of the schema the
\* cached handle and what table() returns as they were; no step removes a
\* CatalogKey or SchemaKey row.
C21_OnlyDeregisterRemoves ==
    (DOMAIN backend \ DOMAIN backend' # {}) =>
        /\ last'.op = "deregister_table"
        /\ DOMAIN backend \ DOMAIN backend'
               = {DeregisteredKey(last'.target, last'.table_name)}

C21_Deregister ==
    last'.op = "deregister_table" =>
        LET key == DeregisteredKey(last'.target, last'.table_name)
            sp == Provider(backend, catalogs, held, last'.target)
            sp2 == Provider(backend', catalogs', held', last'.target)
        IN  /\ key \notin DOMAIN backend'
            /\ DOMAIN backend' = DOMAIN backend \ {key}
            /\ \A k \in DOMAIN backend' : backend'[k] = backend[k]
            /\ \A other \in TableNames \ {last'.table_name} :
                   /\ MapGet(sp2.tables, other) = MapGet(sp.tables, other)
                   /\ Schema_table(backend', sp2, other) = Schema_table(backend, sp, other)

C21_KeysKept ==
    \A k \in DOMAIN backend \cap CatalogAndSchemaKeys :
        k \in DOMAIN backend' /\ backend'[k] = backend[k]

C21_DeletionFrame ==
    [][C21_OnlyDeregisterRemoves /\ C21_Deregister /\ C21_KeysKept]_vars

\* deregister_table("tab_a") has acted on a schema holding two registered
\* tables: the row of tab_a is gone, the row and handle of tab_b and the
\* catalog and schema rows are there
C21_Witness ==
    /\ last.op = "deregister_table"
    /\ last.table_name = "tab_a"
    /\ last.target = <<DEFAULT_CATALOG_NAME, DEFAULT_SCHEMA_NAME>>
    /\ LET sp == Provider(backend, catalogs, held, last.target)
       IN  /\ sp # None
           /\ MapGet(sp.tables, "tab_a") # None
           /\ DeregisteredKey(last.target, "tab_a") \notin DOMAIN backend
           /\ DeregisteredKey(last.target, "tab_b") \in DOMAIN backend
           /\ Schema_table(backend, sp, "tab_b") # None
    /\ DOMAIN backend \cap CatalogAndSchemaKeys # {}

====
